---------------------------- MODULE Spec2Model ----------------------------
(***************************************************************************)
(* d-scope: the photo set store (src/src/photo_set.rs) and the part of the *)
(* UI frame handler that drives it (src/src/main.rs, MyApp::update).       *)
(*                                                                         *)
(* A file name is a sequence of bytes.  An ASCII byte is the one-character *)
(* string of its character; the two bytes of the UTF-8 encoding of a       *)
(* two-byte character are the tokens "C3" (lead byte) and "A9"             *)
(* (continuation byte).  Rust's str::len, slicing and starts_with work on  *)
(* bytes, and slicing panics when an index is not on a character boundary. *)
(***************************************************************************)
EXTENDS Integers, Sequences, FiniteSets, TLC

(***************************************************************************)
(* Bounds of the model.                                                    *)
(***************************************************************************)
\* digits used to build the identifiers that are encoded: 0..MaxDigit
MaxDigit == 2

(***************************************************************************)
(* Program constants.                                                      *)
(***************************************************************************)
INFO_FILE_NAME == <<"i", "n", "f", "o", ".", "j", "s", "o", "n">>
PHOTO_FILE_NAME_PREFIX == <<"P", "I", "C", "T">>
PHOTO_FILE_NAME_SUFFIX == <<".", "j", "p", "g">>
\* width of the zero-padded numeric field, "{:04}"
FieldWidth == 4
\* name.len() < 12
MinNameLen == 12
\* &name[4..8]
SliceFrom == 4
SliceTo == 8

(***************************************************************************)
(* Bytes and strings.                                                      *)
(***************************************************************************)
LowerLetters == <<"a", "b", "c", "d", "e", "f", "g", "h", "i", "j", "k", "l", "m",
                  "n", "o", "p", "q", "r", "s", "t", "u", "v", "w", "x", "y", "z">>
UpperLetters == <<"A", "B", "C", "D", "E", "F", "G", "H", "I", "J", "K", "L", "M",
                  "N", "O", "P", "Q", "R", "S", "T", "U", "V", "W", "X", "Y", "Z">>
DigitChars == <<"0", "1", "2", "3", "4", "5", "6", "7", "8", "9">>

LowerSet == {LowerLetters[i] : i \in 1..26}
UpperSet == {UpperLetters[i] : i \in 1..26}
DigitSet == {DigitChars[i] : i \in 1..10}
UpperOf == [b \in LowerSet |-> UpperLetters[CHOOSE i \in 1..26 : LowerLetters[i] = b]]
LowerOf == [b \in UpperSet |-> LowerLetters[CHOOSE i \in 1..26 : UpperLetters[i] = b]]
ValueOf == [b \in DigitSet |-> (CHOOSE i \in 1..10 : DigitChars[i] = b) - 1]

IsLower(b) == b \in LowerSet
IsUpper(b) == b \in UpperSet
IsDigit(b) == b \in DigitSet
DigitValue(b) == ValueOf[b]

\* u8::to_ascii_uppercase / to_ascii_lowercase: only ASCII letters change
ByteUpper(b) == IF IsLower(b) THEN UpperOf[b] ELSE b
ByteLower(b) == IF IsUpper(b) THEN LowerOf[b] ELSE b

to_ascii_uppercase(s) == [i \in 1..Len(s) |-> ByteUpper(s[i])]
to_ascii_lowercase(s) == [i \in 1..Len(s) |-> ByteLower(s[i])]

starts_with(s, p) == Len(s) >= Len(p) /\ SubSeq(s, 1, Len(p)) = p
ends_with(s, p) == Len(s) >= Len(p) /\ SubSeq(s, Len(s) - Len(p) + 1, Len(s)) = p

\* a continuation byte of a multi-byte UTF-8 character
IsContinuation(b) == b = "A9"
\* str::is_char_boundary(i), i a 0-based byte index
is_char_boundary(s, i) ==
    \/ i = 0
    \/ i = Len(s)
    \/ i > 0 /\ i < Len(s) /\ ~IsContinuation(s[i + 1])

(***************************************************************************)
(* The filename codec.                                                     *)
(***************************************************************************)
RECURSIVE DecimalDigits(_)
DecimalDigits(n) ==
    IF n < 10 THEN <<DigitChars[n + 1]>>
    ELSE Append(DecimalDigits(n \div 10), DigitChars[(n % 10) + 1])

RECURSIVE ZeroPad(_, _)
ZeroPad(s, w) == IF Len(s) >= w THEN s ELSE ZeroPad(<<"0">> \o s, w)

photo_file_name(id) ==
    PHOTO_FILE_NAME_PREFIX \o ZeroPad(DecimalDigits(id), FieldWidth) \o PHOTO_FILE_NAME_SUFFIX

SomeId(n) == [k |-> "Some", v |-> n]
NoneId == [k |-> "None", v |-> 0]
PanicId == [k |-> "Panic", v |-> 0]

RECURSIVE StripZeros(_)
StripZeros(s) == IF Len(s) > 0 /\ s[1] = "0" THEN StripZeros(Tail(s)) ELSE s

RECURSIVE DigitsValue(_)
DigitsValue(s) ==
    IF Len(s) = 0 THEN 0
    ELSE 10 * DigitsValue(SubSeq(s, 1, Len(s) - 1)) + DigitValue(s[Len(s)])

\* str::parse::<usize>: an optional leading "+", then one or more decimal digits
ParseUsize(s) ==
    LET digits == IF Len(s) > 1 /\ s[1] = "+" THEN Tail(s) ELSE s
    IN  IF Len(s) = 0 THEN NoneId
        ELSE IF \A i \in 1..Len(digits) : IsDigit(digits[i])
             THEN SomeId(DigitsValue(digits))
             ELSE NoneId

\* photo_file_id comparing the prefix and the suffix as spelled
photo_file_id_exact_case(name) ==
    IF Len(name) < MinNameLen THEN NoneId
    ELSE IF ~starts_with(name, PHOTO_FILE_NAME_PREFIX) THEN NoneId
    ELSE IF ~ends_with(name, PHOTO_FILE_NAME_SUFFIX) THEN NoneId
    ELSE IF ~(is_char_boundary(name, SliceFrom) /\ is_char_boundary(name, SliceTo))
         THEN PanicId
    ELSE LET id_slice == StripZeros(SubSeq(name, SliceFrom + 1, SliceTo))
         IN  IF Len(id_slice) = 0 THEN SomeId(0) ELSE ParseUsize(id_slice)

photo_file_id(name) ==
    IF Len(name) < MinNameLen THEN NoneId
    ELSE IF ~starts_with(to_ascii_uppercase(name), PHOTO_FILE_NAME_PREFIX) THEN NoneId
    ELSE IF ~ends_with(to_ascii_lowercase(name), PHOTO_FILE_NAME_SUFFIX) THEN NoneId
    ELSE IF ~(is_char_boundary(name, SliceFrom) /\ is_char_boundary(name, SliceTo))
         THEN PanicId
    ELSE LET id_slice == StripZeros(SubSeq(name, SliceFrom + 1, SliceTo))
         IN  IF Len(id_slice) = 0 THEN SomeId(0) ELSE ParseUsize(id_slice)


(***************************************************************************)
(* Errors (src/src/errors.rs) and results.                                 *)
(***************************************************************************)
NoError == [kind |-> "None", path |-> "", file |-> <<>>]
DScopeError(kind, path, file) == [kind |-> kind, path |-> path, file |-> file]

(***************************************************************************)
(* Data model.  Times are whole seconds relative to UNIX_EPOCH; a negative *)
(* time is a SystemTime before the epoch.  Floats of MoleMetrics are       *)
(* modelled by small integers.                                             *)
(***************************************************************************)
\* the value SystemTime::now() returns (later than every file time of Init)
Now == 3

MoleMetricsDefault == [center_x |-> 0, center_y |-> 0, diameter |-> 0]

\* PhotoInfo::new
PhotoInfoNew(time) == [time |-> time, notes |-> "", mole_metrics |-> MoleMetricsDefault]

\* impl Default for PhotoSetInfo
PhotoSetInfoDefault == [name |-> "", surname |-> "", time |-> Now, notes |-> ""]

NoPhotoSet == [path |-> "", photos |-> <<>>, info |-> PhotoSetInfoDefault]

(***************************************************************************)
(* The sidecar text.  A JSON text is either not parseable at all           *)
(* (wf = FALSE) or an object with the fields of PhotoSetData; an entry of  *)
(* its photos object has the mole_metrics field or not (has_mm).           *)
(***************************************************************************)
EmptyKeys == {}
NoPhotosObject == [k \in EmptyKeys |-> 0]
GarbageJson == [wf |-> FALSE, name |-> "", surname |-> "", time |-> 0, notes |-> "",
                photos |-> NoPhotosObject]
NoInfoFile == [exists |-> FALSE, text |-> GarbageJson]
InfoFile(text) == [exists |-> TRUE, text |-> text]

\* serde_json::from_str::<PhotoSetData>: every field of PhotoSetData and of
\* PhotoInfo is required; a SystemTime is {secs_since_epoch: u64, ...}
JsonDecodes(text) ==
    /\ text.wf
    /\ text.time >= 0
    /\ \A id \in DOMAIN text.photos :
          /\ text.photos[id].has_mm
          /\ text.photos[id].time >= 0

from_str(text) ==
    [name |-> text.name, surname |-> text.surname, time |-> text.time, notes |-> text.notes,
     photos |-> [id \in DOMAIN text.photos |->
                    [time |-> text.photos[id].time,
                     notes |-> text.photos[id].notes,
                     mole_metrics |-> text.photos[id].mm]]]

\* serde's Serialize for SystemTime fails before UNIX_EPOCH
JsonEncodes(data) ==
    /\ data.time >= 0
    /\ \A id \in DOMAIN data.photos : data.photos[id].time >= 0

to_vec_pretty(data) ==
    [wf |-> TRUE, name |-> data.name, surname |-> data.surname, time |-> data.time,
     notes |-> data.notes,
     photos |-> [id \in DOMAIN data.photos |->
                    [time |-> data.photos[id].time,
                     notes |-> data.photos[id].notes,
                     has_mm |-> TRUE,
                     mm |-> data.photos[id].mole_metrics]]]

(***************************************************************************)
(* The file system: a path is a directory (with its files and its          *)
(* info.json) or not a directory.                                          *)
(***************************************************************************)
NoFiles == [n \in EmptyKeys |-> 0]
File(kind, bytes, mtime) == [kind |-> kind, bytes |-> bytes, mtime |-> mtime]
Directory(files, info) == [is_dir |-> TRUE, files |-> files, info |-> info]
NotDirectory == [is_dir |-> FALSE, files |-> NoFiles, info |-> NoInfoFile]

\* image::load_from_memory succeeds on these bytes
ImageDecodes(bytes) == bytes # "junk"

\* std::fs::write of a new file
WriteFile(dir, name, bytes) ==
    [dir EXCEPT !.files = [n \in DOMAIN dir.files \cup {name} |->
                              IF n = name THEN File("file", bytes, Now) ELSE dir.files[n]]]

\* the orders in which read_dir may list the entries
Orders(S) ==
    {o \in [1..Cardinality(S) -> S] : \A i, j \in 1..Cardinality(S) : o[i] = o[j] => i = j}

\* the kind of read operation that fails during one call of from_path
NoFault == "none"
ReadFaults == {NoFault, "read_dir", "metadata", "read", "read_info"}

(***************************************************************************)
(* PhotoSet::apply_data and PhotoSet::build_data.                          *)
(***************************************************************************)
\* Vec::get_mut(id): the element at 0-based position id
ApplyPhoto(photos, i, data) ==
    IF (i - 1) \in DOMAIN data.photos
    THEN [photos[i] EXCEPT !.info.time = data.photos[i - 1].time,
                           !.info.notes = data.photos[i - 1].notes]
    ELSE photos[i]

apply_data(set, data) ==
    [set EXCEPT
       !.info = [name |-> data.name, surname |-> data.surname, time |-> data.time,
                 notes |-> data.notes],
       !.photos = [i \in 1..Len(set.photos) |-> ApplyPhoto(set.photos, i, data)]]

PhotoIds(photos) == {photos[i].id : i \in 1..Len(photos)}

\* BTreeMap::insert in iteration order: the last photo of an id wins
LastIndexOf(photos, id) ==
    CHOOSE i \in 1..Len(photos) :
        /\ photos[i].id = id
        /\ \A j \in 1..Len(photos) : photos[j].id = id => j <= i

build_data(set) ==
    [name |-> set.info.name, surname |-> set.info.surname, time |-> set.info.time,
     notes |-> set.info.notes,
     photos |-> [id \in PhotoIds(set.photos) |-> set.photos[LastIndexOf(set.photos, id)].info]]

(***************************************************************************)
(* PhotoSet::from_path.                                                    *)
(***************************************************************************)
LoadResult(res, err, set, scanned) ==
    [res |-> res, err |-> err, set |-> set, scanned |-> scanned]

\* the body of the loop over the directory entries, in the order listed
RECURSIVE ScanEntries(_, _, _, _, _)
ScanEntries(path, dir, order, fault, photos) ==
    IF order = <<>> THEN [res |-> "ok", err |-> NoError, photos |-> photos]
    ELSE LET name == Head(order)
             file == dir.files[name]
             id == photo_file_id(name)
             next(ps) == ScanEntries(path, dir, Tail(order), fault, ps)
         IN  IF id.k = "Panic" THEN [res |-> "panic", err |-> NoError, photos |-> photos]
             ELSE IF id.k = "None" THEN next(photos)
             ELSE IF fault = "metadata"
                  THEN [res |-> "err", err |-> DScopeError("CannotReadFile", path, name),
                        photos |-> photos]
             ELSE IF file.kind = "dir" THEN next(photos)
             \* DirEntry::metadata and fs::symlink_metadata do not follow the
             \* link: for a symbolic link is_file() is false
             ELSE IF file.kind = "symlink" THEN next(photos)
             ELSE IF fault = "read"
                  THEN [res |-> "err", err |-> DScopeError("CannotReadFile", path, name),
                        photos |-> photos]
             ELSE IF ~ImageDecodes(file.bytes)
                  THEN [res |-> "err",
                        err |-> DScopeError("CannotDecodeImage", "", photo_file_name(id.v)),
                        photos |-> photos]
             ELSE next(Append(photos, [id |-> id.v, bytes |-> file.bytes,
                                       info |-> PhotoInfoNew(file.mtime)]))

from_path(fs, path, order, fault) ==
    LET dir == fs[path]
        scan == ScanEntries(path, dir, order, fault, <<>>)
        photo_set == [path |-> path, photos |-> scan.photos, info |-> PhotoSetInfoDefault]
    IN  IF ~dir.is_dir
        THEN LoadResult("err", DScopeError("ExpectedDirectory", path, <<>>), NoPhotoSet, <<>>)
        ELSE IF fault = "read_dir"
        THEN LoadResult("err", DScopeError("CannotReadFile", path, <<>>), NoPhotoSet, <<>>)
        ELSE IF scan.res # "ok"
        THEN LoadResult(scan.res, scan.err, NoPhotoSet, <<>>)
        ELSE IF Len(scan.photos) = 0
        THEN LoadResult("err", DScopeError("NoPhotosFound", path, <<>>), NoPhotoSet, <<>>)
        ELSE IF ~dir.info.exists
        THEN LoadResult("ok", NoError, photo_set, scan.photos)
        ELSE IF fault = "read_info"
        THEN LoadResult("err", DScopeError("CannotReadFile", path, INFO_FILE_NAME),
                        NoPhotoSet, <<>>)
        ELSE IF ~JsonDecodes(dir.info.text)
        THEN LoadResult("err", DScopeError("CannotDecodeInfo", path, INFO_FILE_NAME),
                        NoPhotoSet, <<>>)
        ELSE LoadResult("ok", NoError, apply_data(photo_set, from_str(dir.info.text)),
                        scan.photos)

(***************************************************************************)
(* PhotoSet::save.                                                         *)
(***************************************************************************)
SaveResult(res, err, fs) == [res |-> res, err |-> err, fs |-> fs]

\* the name whose std::fs::write fails in one call (none: <<>>)
WriteFaults(set) ==
    {<<>>, INFO_FILE_NAME} \cup {photo_file_name(set.photos[i].id) : i \in 1..Len(set.photos)}

\* Path::exists
Exists(dir, name) == dir.is_dir /\ name \in DOMAIN dir.files

\* the loop over the photos without the test of Path::exists
RECURSIVE SavePhotosOverwrite(_, _, _, _)
SavePhotosOverwrite(dir, path, photos, fault) ==
    IF photos = <<>> THEN [res |-> "ok", err |-> NoError, dir |-> dir]
    ELSE LET photo == Head(photos)
             name == photo_file_name(photo.id)
         IN  IF ~dir.is_dir \/ fault = name
             THEN [res |-> "err", err |-> DScopeError("CannotWriteFile", path, name),
                   dir |-> dir]
             ELSE SavePhotosOverwrite(WriteFile(dir, name, photo.bytes), path, Tail(photos),
                                      fault)

\* the loop over the photos: writes the files that do not exist yet
RECURSIVE SavePhotos(_, _, _, _)
SavePhotos(dir, path, photos, fault) ==
    IF photos = <<>> THEN [res |-> "ok", err |-> NoError, dir |-> dir]
    ELSE LET photo == Head(photos)
             name == photo_file_name(photo.id)
         IN  IF Exists(dir, name) THEN SavePhotos(dir, path, Tail(photos), fault)
             ELSE IF ~dir.is_dir \/ fault = name
                  THEN [res |-> "err", err |-> DScopeError("CannotWriteFile", path, name),
                        dir |-> dir]
             ELSE SavePhotos(WriteFile(dir, name, photo.bytes), path, Tail(photos), fault)

\* save writing info.json before the photo files
save_info_first(fs, set, fault) ==
    LET path == set.path
        data == build_data(set)
        fs0 == [fs EXCEPT ![path].info = InfoFile(to_vec_pretty(data))]
        step1 == SavePhotos(fs0[path], path, set.photos, fault)
    IN  IF ~JsonEncodes(data) THEN SaveResult("panic", NoError, fs)
        ELSE IF ~fs[path].is_dir \/ fault = INFO_FILE_NAME
        THEN SaveResult("err", DScopeError("CannotWriteFile", path, INFO_FILE_NAME), fs)
        ELSE SaveResult(step1.res, step1.err, [fs0 EXCEPT ![path] = step1.dir])

save(fs, set, fault) ==
    LET path == set.path
        step1 == SavePhotos(fs[path], path, set.photos, fault)
        fs1 == [fs EXCEPT ![path] = step1.dir]
        data == build_data(set)
    IN  IF step1.res # "ok" THEN SaveResult("err", step1.err, fs1)
        \* serde_json::to_vec_pretty(..).unwrap()
        ELSE IF ~JsonEncodes(data) THEN SaveResult("panic", NoError, fs1)
        ELSE IF ~fs1[path].is_dir \/ fault = INFO_FILE_NAME
        THEN SaveResult("err", DScopeError("CannotWriteFile", path, INFO_FILE_NAME), fs1)
        ELSE SaveResult("ok", NoError,
                        [fs1 EXCEPT ![path].info = InfoFile(to_vec_pretty(data))])

(***************************************************************************)
(* State.                                                                  *)
(***************************************************************************)
VARIABLES
    fs,        \* the file system: path -> directory
    status,    \* MyApp.status: DScopeStatus {error, load, ui}
    crashed,   \* the process panicked
    clicks,    \* number of interactions of the user so far
    calls,     \* history: the calls of from_path and save made by the last frame
    cname,     \* codec: the file name at hand
    cid,       \* codec: the identifier cname was encoded from (NoneId: typed in)
    cres,      \* codec: the result of photo_file_id(cname)
    cpc        \* codec: "idle", "named", "decoded"

appVars == <<fs, status, crashed, clicks, calls>>
codecVars == <<cname, cid, cres, cpc>>
vars == <<fs, status, crashed, clicks, calls, cname, cid, cres, cpc>>

(***************************************************************************)
(* Bounds and inputs of the application model.                             *)
(***************************************************************************)
\* interactions of the user in one run
MaxClicks == 4
\* largest identifier of an entry of the initial sidecar
MaxSidecarId == 1
\* largest value of a mole metric
MaxMetric == 1

\* "A" and "B" are folders, "F" is not a directory
Paths == {"A", "B", "F"}
Folders == {"A", "B"}
Texts == {"", "x"}
MetricValues == 0..MaxMetric

Name0 == photo_file_name(0)
Name1 == photo_file_name(1)
Name1Lower == <<"p", "i", "c", "t", "0", "0", "0", "1", ".", "J", "P", "G">>
Name2Extra == <<"P", "I", "C", "T", "0", "0", "0", "2", "_", "b", ".", "j", "p", "g">>
NameTorn == <<"P", "I", "C", "T", "0", "0", "0", "C3", "A9", ".", "j", "p", "g">>
NameOther == <<"n", "o", "t", "e", "s", ".", "t", "x", "t">>

BytesOf(name) ==
    CASE name = Name0 -> "jpeg0"
      [] name = Name1 -> "jpeg1"
      [] name = Name1Lower -> "jpeg1lower"
      [] name = Name2Extra -> "jpeg2extra"
      [] OTHER -> "text"

\* what an entry of an initial directory may be; a "symlink" is a symbolic
\* link to a regular file that holds the bytes
InitFile(name, variant) ==
    CASE variant = "old" -> File("file", BytesOf(name), -1)
      [] variant = "junk" -> File("file", "junk", 1)
      [] variant = "dir" -> File("dir", "", 1)
      [] variant = "symlink" -> File("symlink", BytesOf(name), 1)
      [] OTHER -> File("file", BytesOf(name), 1)

OneFile(name, variant) == [n \in {name} |-> InitFile(n, variant)]
TwoFiles(name1, name2, variant) ==
    [n \in {name1, name2} |-> IF n = name2 THEN InitFile(n, variant) ELSE InitFile(n, "plain")]

\* a second entry next to PICT0001.jpg
SecondEntries ==
    {<<n, "plain">> : n \in {Name0, Name1Lower, Name2Extra, NameTorn, NameOther}}
    \cup {<<Name0, v>> : v \in {"old", "junk", "dir", "symlink"}}

\* the initial directories without a sidecar
InitDirFiles == {OneFile(Name1, "plain")} \cup {TwoFiles(Name1, e[1], e[2]) : e \in SecondEntries}

SidecarEntry(id, has_mm) ==
    [time |-> 5 + id, notes |-> "s", has_mm |-> has_mm, mm |-> MoleMetricsDefault]
SidecarText(ids, has_mm) ==
    [wf |-> TRUE, name |-> "n", surname |-> "", time |-> 5, notes |-> "",
     photos |-> [id \in ids |-> SidecarEntry(id, has_mm)]]
\* the initial sidecars, next to PICT0000.jpg and PICT0002_b.jpg
InitInfoFiles ==
    {InfoFile(GarbageJson)}
    \cup {InfoFile(SidecarText({id}, m)) : id \in 0..MaxSidecarId, m \in BOOLEAN}

InitDirectories ==
    {Directory(files, NoInfoFile) : files \in InitDirFiles}
    \cup {Directory(TwoFiles(Name0, Name2Extra, "plain"), info) : info \in InitInfoFiles}

\* folder "B" holds a directory named PICT0001.jpg
InitOtherFolder == Directory(OneFile(Name1, "dir"), NoInfoFile)

(***************************************************************************)
(* The UI state (enum DScopeUi).                                           *)
(***************************************************************************)
UiEmpty ==
    [kind |-> "Empty", photos |-> NoPhotoSet, current_photo_index |-> 0,
     current_photo |-> "", show_measures |-> FALSE, edit_measures |-> FALSE,
     edit_data |-> FALSE, save |-> FALSE]
\* Show starting at the index after the last photo
UiShowPastEnd(photos) ==
    [kind |-> "Show", photos |-> photos, current_photo_index |-> Len(photos.photos),
     current_photo |-> photos.photos[1].bytes, show_measures |-> FALSE,
     edit_measures |-> FALSE, edit_data |-> FALSE, save |-> FALSE]
UiShow(photos) ==
    [kind |-> "Show", photos |-> photos, current_photo_index |-> 0,
     current_photo |-> photos.photos[1].bytes, show_measures |-> FALSE,
     edit_measures |-> FALSE, edit_data |-> FALSE, save |-> FALSE]

\* history: one call of from_path ("load") or of save ("save": by the pending
\* save, "save_as": by "Save as"), the file system before and after it, what
\* it returned, and the PhotoSet returned or saved
Call(op, path, old_path, order, before, after, res, err, set, scanned) ==
    [op |-> op, path |-> path, old_path |-> old_path, order |-> order, before |-> before,
     after |-> after, res |-> res, err |-> err, set |-> set, scanned |-> scanned]

(***************************************************************************)
(* MyApp::update, the part of a frame before the widgets: show the pending *)
(* error, run the pending load, run the pending save.                      *)
(***************************************************************************)
Frame(st, fsys, crash, cs) ==
    [status |-> st, fs |-> fsys, crashed |-> crash, calls |-> cs]

\* lines 71-73
TakeError(st) == [st EXCEPT !.error = NoError]

\* the pending load closing the displayed set when from_path fails
RunLoadClosesSet(f, order, r) ==
    LET path == f.status.load
        st == [f.status EXCEPT !.load = ""]
        c == Call("load", path, path, order, f.fs, f.fs, r.res, r.err, r.set, r.scanned)
    IN  IF path = "" THEN f
        ELSE IF r.res = "panic" THEN Frame(st, f.fs, TRUE, Append(f.calls, c))
        ELSE IF r.res = "ok"
        THEN Frame([st EXCEPT !.ui = UiShow(r.set)], f.fs, FALSE, Append(f.calls, c))
        ELSE Frame([st EXCEPT !.error = r.err, !.ui = UiEmpty], f.fs, FALSE,
                   Append(f.calls, c))

\* lines 74-98; r is what from_path returned
RunLoad(f, order, r) ==
    LET path == f.status.load
        st == [f.status EXCEPT !.load = ""]
        c == Call("load", path, path, order, f.fs, f.fs, r.res, r.err, r.set, r.scanned)
    IN  IF path = "" THEN f
        ELSE IF r.res = "panic" THEN Frame(st, f.fs, TRUE, Append(f.calls, c))
        ELSE IF r.res = "ok"
        THEN Frame([st EXCEPT !.ui = UiShow(r.set)], f.fs, FALSE, Append(f.calls, c))
        ELSE Frame([st EXCEPT !.error = r.err], f.fs, FALSE, Append(f.calls, c))

\* lines 120-128; r is what save returned
SavePending(f) == ~f.crashed /\ f.status.ui.kind = "Show" /\ f.status.ui.save
RunSave(f, r) ==
    LET set == f.status.ui.photos
        st == [f.status EXCEPT !.ui.save = FALSE]
        c == Call("save", set.path, set.path, <<>>, f.fs, r.fs, r.res, r.err, set, <<>>)
    IN  IF ~SavePending(f) THEN f
        ELSE IF r.res = "panic" THEN Frame(st, r.fs, TRUE, Append(f.calls, c))
        ELSE IF r.res = "err"
        THEN Frame([st EXCEPT !.error = r.err], r.fs, FALSE, Append(f.calls, c))
        ELSE Frame([st EXCEPT !.ui.edit_measures = FALSE, !.ui.edit_data = FALSE],
                   r.fs, FALSE, Append(f.calls, c))

\* what the pending load may return: the listing order and the read that
\* fails are the environment's choice
NoLoad == LoadResult("none", NoError, NoPhotoSet, <<>>)
LoadOutcomes ==
    IF status.load = "" THEN {<<<<>>, NoLoad>>}
    ELSE IF ~fs[status.load].is_dir
    THEN {<<<<>>, from_path(fs, status.load, <<>>, NoFault)>>}
    ELSE {<<order, from_path(fs, status.load, order, fault)>> :
             order \in Orders(DOMAIN fs[status.load].files), fault \in ReadFaults}

\* what the pending save may return: the write that fails is the
\* environment's choice
NoSave == SaveResult("none", NoError, fs)
SaveOutcomes(f) ==
    IF ~SavePending(f) THEN {NoSave}
    ELSE {save(f.fs, f.status.ui.photos, fault) : fault \in WriteFaults(f.status.ui.photos)}

\* the states in which the frame may reach the widgets
Loaded ==
    {RunLoad(Frame(TakeError(status), fs, FALSE, <<>>), o[1], o[2]) : o \in LoadOutcomes}
Begins == UNION {{RunSave(f, r) : r \in SaveOutcomes(f)} : f \in Loaded}

\* the frame ends in state f
End(f) ==
    /\ status' = f.status
    /\ fs' = f.fs
    /\ crashed' = f.crashed
    /\ calls' = f.calls

(***************************************************************************)
(* Frames: each action is one call of MyApp::update with at most one       *)
(* interaction of the user with the widgets.                               *)
(***************************************************************************)
\* a frame without interaction; also every frame in which the process panics
Idle ==
    /\ ~crashed
    /\ \E f \in Begins : End(f)
    /\ UNCHANGED <<clicks, codecVars>>

\* "Load" (lines 103-107, 133-137): the folder picked is loaded by the next frame
ClickLoad ==
    /\ ~crashed
    /\ clicks < MaxClicks
    /\ \E f \in Begins, path \in Paths :
              /\ ~f.crashed
              /\ End([f EXCEPT !.status.load = path])
    /\ clicks' = clicks + 1
    /\ UNCHANGED codecVars

\* "Save" (lines 138-140, 209-211, 245-247): the next frame saves
ClickSave ==
    /\ ~crashed
    /\ clicks < MaxClicks
    /\ \E f \in Begins :
              /\ ~f.crashed
              /\ f.status.ui.kind = "Show"
              /\ End([f EXCEPT !.status.ui.save = TRUE])
    /\ clicks' = clicks + 1
    /\ UNCHANGED codecVars

\* "Save as" keeping the new path when save fails
SaveAsNoRollback(f, new_path, r) ==
    LET old_path == f.status.ui.photos.path
        set == [f.status.ui.photos EXCEPT !.path = new_path]
        c == Call("save_as", new_path, old_path, <<>>, f.fs, r.fs, r.res, r.err, set, <<>>)
    IN  IF r.res = "panic"
        THEN Frame([f.status EXCEPT !.ui.photos = set], r.fs, TRUE, Append(f.calls, c))
        ELSE IF r.res = "ok"
        THEN Frame([f.status EXCEPT !.ui.photos = set], r.fs, FALSE, Append(f.calls, c))
        ELSE Frame([f.status EXCEPT !.ui.photos = set, !.error = r.err], r.fs, FALSE,
                   Append(f.calls, c))

\* "Save as" (lines 141-153); r is what save returned
SaveAs(f, new_path, r) ==
    LET old_path == f.status.ui.photos.path
        set == [f.status.ui.photos EXCEPT !.path = new_path]
        c == Call("save_as", new_path, old_path, <<>>, f.fs, r.fs, r.res, r.err, set, <<>>)
    IN  IF r.res = "panic"
        THEN Frame([f.status EXCEPT !.ui.photos = set], r.fs, TRUE, Append(f.calls, c))
        ELSE IF r.res = "ok"
        THEN Frame([f.status EXCEPT !.ui.photos = set], r.fs, FALSE, Append(f.calls, c))
        ELSE Frame([f.status EXCEPT !.error = r.err], r.fs, FALSE, Append(f.calls, c))

ClickSaveAs ==
    /\ ~crashed
    /\ clicks < MaxClicks
    /\ \E f \in Begins, new_path \in Folders :
          /\ ~f.crashed
          /\ f.status.ui.kind = "Show"
          /\ \E fault \in WriteFaults(f.status.ui.photos) :
                \E r \in {save(f.fs, [f.status.ui.photos EXCEPT !.path = new_path], fault)} :
                   End(SaveAs(f, new_path, r))
    /\ clicks' = clicks + 1
    /\ UNCHANGED codecVars

\* the "Metrics" checkbox (line 157)
ToggleMetrics ==
    /\ ~crashed
    /\ clicks < MaxClicks
    /\ \E f \in Begins :
              /\ ~f.crashed
              /\ f.status.ui.kind = "Show"
              /\ End([f EXCEPT !.status.ui.show_measures = ~f.status.ui.show_measures])
    /\ clicks' = clicks + 1
    /\ UNCHANGED codecVars

\* "Edit measures" (lines 158-165)
ClickEditMeasures ==
    /\ ~crashed
    /\ clicks < MaxClicks
    /\ \E f \in Begins :
              /\ ~f.crashed
              /\ f.status.ui.kind = "Show"
              /\ f.status.ui.show_measures
              /\ ~f.status.ui.edit_measures
              /\ End([f EXCEPT !.status.ui.edit_measures = TRUE])
    /\ clicks' = clicks + 1
    /\ UNCHANGED codecVars

\* "Edit data" (lines 166-171)
ClickEditData ==
    /\ ~crashed
    /\ clicks < MaxClicks
    /\ \E f \in Begins :
              /\ ~f.crashed
              /\ f.status.ui.kind = "Show"
              /\ ~f.status.ui.edit_data
              /\ End([f EXCEPT !.status.ui.edit_data = TRUE])
    /\ clicks' = clicks + 1
    /\ UNCHANGED codecVars

\* the text fields of the visit (lines 195-207)
SetInfoField(info, field, text) ==
    CASE field = "surname" -> [info EXCEPT !.surname = text]
      [] field = "name" -> [info EXCEPT !.name = text]
      [] OTHER -> [info EXCEPT !.notes = text]

EditData ==
    /\ ~crashed
    /\ clicks < MaxClicks
    /\ \E f \in Begins,
             field \in {"surname", "name", "notes"}, text \in Texts :
            LET info == f.status.ui.photos.info
            IN
              /\ ~f.crashed
              /\ f.status.ui.kind = "Show"
              /\ f.status.ui.edit_data
              /\ SetInfoField(info, field, text) # info
              /\ End([f EXCEPT !.status.ui.photos.info = SetInfoField(info, field, text)])
    /\ clicks' = clicks + 1
    /\ UNCHANGED codecVars

\* the sliders of the current photo (lines 215-243)
SetMetric(m, field, v) ==
    CASE field = "center_x" -> [m EXCEPT !.center_x = v]
      [] field = "center_y" -> [m EXCEPT !.center_y = v]
      [] OTHER -> [m EXCEPT !.diameter = v]

SlideMeasure ==
    /\ ~crashed
    /\ clicks < MaxClicks
    /\ \E f \in Begins,
             field \in {"center_x", "center_y", "diameter"}, v \in MetricValues :
            LET i == f.status.ui.current_photo_index + 1
                m == f.status.ui.photos.photos[i].info.mole_metrics
            IN
              /\ ~f.crashed
              /\ f.status.ui.kind = "Show"
              /\ f.status.ui.edit_measures
              /\ SetMetric(m, field, v) # m
              /\ End([f EXCEPT !.status.ui.photos.photos[i].info.mole_metrics =
                                   SetMetric(m, field, v)])
    /\ clicks' = clicks + 1
    /\ UNCHANGED codecVars

\* a click on a preview of the photo list (lines 256-283)
SelectPhoto ==
    /\ ~crashed
    /\ clicks < MaxClicks
    /\ \E f \in Begins :
            LET ui == f.status.ui
            IN
              /\ ~f.crashed
              /\ ui.kind = "Show"
              /\ \E index \in 0..(Len(ui.photos.photos) - 1) :
                    /\ ui.current_photo_index # index
                    /\ IF ImageDecodes(ui.photos.photos[index + 1].bytes)
                       THEN End([f EXCEPT !.status.ui.current_photo_index = index,
                                          !.status.ui.current_photo =
                                              ui.photos.photos[index + 1].bytes])
                       ELSE End([f EXCEPT !.status.error =
                                     DScopeError("CannotCreateImage", "", photo_file_name(index))])
    /\ clicks' = clicks + 1
    /\ UNCHANGED codecVars

\* a click in the plot moves the centre, a drag changes the diameter
\* (lines 308-347)
PlotPointer ==
    /\ ~crashed
    /\ clicks < MaxClicks
    /\ \E f \in Begins,
             px \in MetricValues, py \in MetricValues, d \in MetricValues, drag \in BOOLEAN :
            LET i == f.status.ui.current_photo_index + 1
                m == f.status.ui.photos.photos[i].info.mole_metrics
                m2 == IF drag THEN [m EXCEPT !.diameter = d]
                      ELSE [m EXCEPT !.center_x = px, !.center_y = py]
            IN
              /\ ~f.crashed
              /\ f.status.ui.kind = "Show"
              /\ f.status.ui.show_measures
              /\ m2 # m
              /\ End([f EXCEPT !.status.ui.photos.photos[i].info.mole_metrics = m2])
    /\ clicks' = clicks + 1
    /\ UNCHANGED codecVars

(***************************************************************************)
(* The application.                                                        *)
(***************************************************************************)
CodecIdle ==
    /\ cname = <<>>
    /\ cid = NoneId
    /\ cres = NoneId
    /\ cpc = "idle"

Init ==
    /\ \E dir \in InitDirectories :
          fs = [p \in Paths |->
                  CASE p = "A" -> dir
                    [] p = "B" -> InitOtherFolder
                    [] OTHER -> NotDirectory]
    /\ status = [error |-> NoError, load |-> "", ui |-> UiEmpty]
    /\ crashed = FALSE
    /\ clicks = 0
    /\ calls = <<>>
    /\ CodecIdle

Next ==
    \/ Idle
    \/ ClickLoad
    \/ ClickSave
    \/ ClickSaveAs
    \/ ToggleMetrics
    \/ ClickEditMeasures
    \/ ClickEditData
    \/ EditData
    \/ SlideMeasure
    \/ SelectPhoto
    \/ PlotPointer

Spec == Init /\ [][Next]_vars

(***************************************************************************)
(* The filename codec on its own: a name is made by photo_file_name and    *)
(* respelled in other cases, or typed in, and then given to photo_file_id. *)
(***************************************************************************)
\* the identifiers encoded: those written with the digits 0..MaxDigit, and
\* the identifiers of test_photo_file_name, and the largest of four digits
CodecIds ==
    {((d1 * 10 + d2) * 10 + d3) * 10 + d4 : d1 \in 0..MaxDigit, d2 \in 0..MaxDigit,
                                            d3 \in 0..MaxDigit, d4 \in 0..MaxDigit}
    \cup {7, 42, 9999}

\* the names typed in: a prefix, three or four characters, a suffix
Prefixes == {PHOTO_FILE_NAME_PREFIX, <<"p", "I", "c", "T">>, <<"R", "I", "C", "T">>}
Suffixes == {PHOTO_FILE_NAME_SUFFIX, <<".", "J", "p", "G">>, <<".", "j", "p", "j">>}
MidChars == {<<"0">>, <<"1">>, <<"+">>, <<"x">>, <<"C3", "A9">>}
NameInputs ==
    {p \o a \o b \o c \o d \o x :
        p \in Prefixes, a \in MidChars, b \in MidChars, c \in MidChars,
        d \in MidChars \cup {<<>>}, x \in Suffixes}

AppIdle ==
    /\ fs = [p \in Paths |-> NotDirectory]
    /\ status = [error |-> NoError, load |-> "", ui |-> UiEmpty]
    /\ crashed = FALSE
    /\ clicks = 0
    /\ calls = <<>>

InitCodec == AppIdle /\ CodecIdle

Encode ==
    /\ cpc = "idle"
    /\ \E id \in CodecIds :
          /\ cname' = photo_file_name(id)
          /\ cid' = SomeId(id)
    /\ cres' = NoneId
    /\ cpc' = "named"
    /\ UNCHANGED appVars

\* the same name with one letter in the other case
Recase ==
    /\ cpc = "named"
    /\ cid # NoneId
    /\ \E i \in 1..Len(cname) :
          /\ IsLower(cname[i]) \/ IsUpper(cname[i])
          /\ cname' = [cname EXCEPT ![i] = IF IsLower(@) THEN ByteUpper(@) ELSE ByteLower(@)]
    /\ UNCHANGED <<cid, cres, cpc, appVars>>

TypeName ==
    /\ cpc = "idle"
    /\ \E n \in NameInputs : cname' = n
    /\ cid' = NoneId
    /\ cres' = NoneId
    /\ cpc' = "named"
    /\ UNCHANGED appVars

Decode ==
    /\ cpc = "named"
    /\ cres' = photo_file_id(cname)
    /\ cpc' = "decoded"
    /\ UNCHANGED <<cname, cid, appVars>>

\* the result is dropped: the next name can be made
Forget ==
    /\ cpc = "decoded"
    /\ cname' = <<>>
    /\ cid' = NoneId
    /\ cres' = NoneId
    /\ cpc' = "idle"
    /\ UNCHANGED appVars

NextCodec == Encode \/ Recase \/ TypeName \/ Decode \/ Forget

SpecCodec == InitCodec /\ [][NextCodec]_vars

(***************************************************************************)
(* Properties.                                                             *)
(***************************************************************************)
IsLoad(c) == c.op = "load"
IsSave(c) == c.op = "save" \/ c.op = "save_as"
\* the sidecar of the directory a call loaded
SidecarOf(c) == c.before[c.path].info

\* C1: when load merges a sidecar, every photo whose id is a key of the
\* sidecar's photo mapping ends with the time and the notes of that entry,
\* whatever its position in photos.
C1_MergeKeyedById ==
    \A n \in DOMAIN calls :
        LET c == calls[n]
            data == SidecarOf(c).text.photos
        IN  IsLoad(c) /\ c.res = "ok" /\ SidecarOf(c).exists =>
                \A k \in DOMAIN c.set.photos :
                    LET photo == c.set.photos[k]
                    IN  photo.id \in DOMAIN data =>
                            /\ photo.info.time = data[photo.id].time
                            /\ photo.info.notes = data[photo.id].notes

\* C2: the photos of every PhotoSet load returns have pairwise distinct ids.
C2_DistinctIds ==
    \A n \in DOMAIN calls :
        LET c == calls[n]
        IN  IsLoad(c) /\ c.res = "ok" =>
                \A i, j \in DOMAIN c.set.photos :
                    c.set.photos[i].id = c.set.photos[j].id => i = j

\* C3: when no key of the sidecar's photo mapping is the id of a loaded photo,
\* load returns as many photos as it scanned and each keeps the time and the
\* notes it was scanned with.
C3_UnknownIdIgnored ==
    \A n \in DOMAIN calls :
        LET c == calls[n]
            data == SidecarOf(c).text.photos
        IN  /\ IsLoad(c)
            /\ c.res = "ok"
            /\ SidecarOf(c).exists
            /\ data # NoPhotosObject
            /\ DOMAIN data \cap PhotoIds(c.set.photos) = {}
            =>  /\ Len(c.set.photos) = Len(c.scanned)
                /\ \A k \in DOMAIN c.set.photos :
                      /\ c.set.photos[k].info.time = c.scanned[k].info.time
                      /\ c.set.photos[k].info.notes = c.scanned[k].info.notes

\* C4: after a successful save of S, every successful load of S.path returns
\* a set with the info of S in which every photo has the notes and the time
\* of the photos of S with the same id.
RoundTrips(saved, loaded) ==
    /\ loaded.info = saved.info
    /\ \A i \in DOMAIN loaded.photos, j \in DOMAIN saved.photos :
          loaded.photos[i].id = saved.photos[j].id =>
              /\ loaded.photos[i].info.time = saved.photos[j].info.time
              /\ loaded.photos[i].info.notes = saved.photos[j].info.notes

C4_SaveLoadRoundTrip ==
    \A n \in DOMAIN calls :
        LET c == calls[n]
        IN  IsSave(c) /\ c.res = "ok" =>
                \A order \in Orders(DOMAIN c.after[c.path].files) :
                    \A r \in {from_path(c.after, c.path, order, NoFault)} :
                        r.res = "ok" => RoundTrips(c.set, r.set)

\* C5: with a plain image file PICT0000.jpg and a sidecar whose photos are
\* {"0": {time, notes}} without mole_metrics, load succeeds unless a read
\* fails, and the photos with id 0 have the time and the notes of the entry.
PlainImages(dir) ==
    \A name \in DOMAIN dir.files :
        /\ dir.files[name].kind = "file"
        /\ ImageDecodes(dir.files[name].bytes)
        /\ photo_file_id(name).k # "Panic"

C5_SidecarWithoutMetrics ==
    \A n \in DOMAIN calls :
        LET c == calls[n]
            dir == c.before[c.path]
            text == dir.info.text
        IN  /\ IsLoad(c)
            /\ dir.is_dir
            /\ Name0 \in DOMAIN dir.files
            /\ PlainImages(dir)
            /\ dir.info.exists
            /\ text.wf
            /\ DOMAIN text.photos = {0}
            /\ ~text.photos[0].has_mm
            /\ c.err.kind # "CannotReadFile"
            =>  /\ c.res = "ok"
                /\ \A k \in DOMAIN c.set.photos :
                      c.set.photos[k].id = 0 =>
                          /\ c.set.photos[k].info.time = text.photos[0].time
                          /\ c.set.photos[k].info.notes = text.photos[0].notes

\* C6: save leaves every file that exists as it is, in every directory; the
\* files it adds are named encode(id) for a photo of the set, hold the bytes
\* of a photo with that id and are in the directory of the set; when it
\* succeeds every photo has its file.
PhotoNames(set) == {photo_file_name(set.photos[k].id) : k \in DOMAIN set.photos}

C6_SaveWriteOnce ==
    \A n \in DOMAIN calls :
        LET c == calls[n]
            before == c.before[c.path]
            after == c.after[c.path]
        IN  IsSave(c) =>
                /\ \A q \in Paths \ {c.path} : c.after[q] = c.before[q]
                /\ after.is_dir = before.is_dir
                /\ \A name \in DOMAIN before.files :
                      /\ name \in DOMAIN after.files
                      /\ after.files[name] = before.files[name]
                /\ \A name \in DOMAIN after.files \ DOMAIN before.files :
                      \E k \in DOMAIN c.set.photos :
                          /\ name = photo_file_name(c.set.photos[k].id)
                          /\ after.files[name].bytes = c.set.photos[k].bytes
                /\ PhotoNames(c.set) \subseteq DOMAIN before.files =>
                      after.files = before.files
                /\ c.res = "ok" => PhotoNames(c.set) \subseteq DOMAIN after.files

\* a save that kept a file that existed and wrote a file that did not
C6_Witness ==
    \E n \in DOMAIN calls :
        /\ IsSave(calls[n])
        /\ calls[n].res = "ok"
        /\ PhotoNames(calls[n].set) \cap DOMAIN calls[n].before[calls[n].path].files # {}
        /\ DOMAIN calls[n].after[calls[n].path].files
              # DOMAIN calls[n].before[calls[n].path].files

\* C7: for every identifier below 10000 and every respelling of the letters
\* of encode(id) in upper or lower case, decode returns Some(id).
C7_CodecRoundTrip ==
    cpc = "decoded" /\ cid # NoneId => cres = cid

\* the name of 42 with letters in lower and in upper case, decoded
C7_Witness ==
    /\ cpc = "decoded"
    /\ cid = SomeId(42)
    /\ cname = <<"p", "I", "c", "t", "0", "0", "4", "2", ".", "J", "p", "G">>
    /\ cres = SomeId(42)

\* C8: for a name that is shorter than 12 bytes, or does not start with "PICT"
\* or end with ".jpg" in some casing, or has a byte that is no decimal digit
\* at the positions 4..7, decode does not return Some.
Acceptable(name) ==
    /\ Len(name) >= MinNameLen
    /\ \A i \in 1..4 : ByteUpper(name[i]) = PHOTO_FILE_NAME_PREFIX[i]
    /\ \A i \in 1..4 : ByteLower(name[Len(name) - 4 + i]) = PHOTO_FILE_NAME_SUFFIX[i]
    /\ \A i \in 5..8 : IsDigit(name[i])

C8_DecodeRejects ==
    cpc = "decoded" /\ ~Acceptable(cname) => cres.k # "Some"

\* C9: no operation panics.
C9_NoPanic == ~crashed

\* C10: after "Save as", when save failed the set has the path it had and the
\* error of save is pending; when save succeeded the set has the new path; a
\* folder other than the new one is as it was.
LastCall == calls[Len(calls)]

C10_SaveAsRollsBack ==
    calls # <<>> /\ LastCall.op = "save_as" =>
        /\ LastCall.res = "err" =>
              /\ status.ui.photos.path = LastCall.old_path
              /\ status.error = LastCall.err
              /\ status.error.kind = "CannotWriteFile"
        /\ LastCall.res = "ok" => status.ui.photos.path = LastCall.path
        /\ \A q \in Paths \ {LastCall.path} : LastCall.after[q] = LastCall.before[q]

\* a failed "Save as" to another folder
C10_Witness ==
    /\ calls # <<>>
    /\ LastCall.op = "save_as"
    /\ LastCall.res = "err"
    /\ LastCall.path # LastCall.old_path
    /\ status.ui.photos.path = LastCall.old_path

\* C11: a frame without interaction whose load fails returns no PhotoSet,
\* leaves the displayed set, the current photo, the flags and the files as
\* they were, and leaves the error of load pending.
LoadFailed(c) == c.op = "load" /\ c.res = "err"

C11_LoadAllOrNothing ==
    [][(clicks' = clicks /\ calls' # <<>> /\ LoadFailed(calls'[1])) =>
           /\ calls'[1].set = NoPhotoSet
           /\ status'.ui = status.ui
           /\ status'.error = calls'[1].err
           /\ status'.load = ""
           /\ fs' = fs]_vars

\* a load failed while a set was displayed with "Edit data" on
C11_Witness ==
    /\ calls # <<>>
    /\ LoadFailed(calls[1])
    /\ status.ui.kind = "Show"
    /\ status.ui.edit_data
    /\ status.error = calls[1].err

\* C12: the photos of a successful load are the entries whose name decodes
\* to an identifier and that are a regular file or a symbolic link to a
\* regular file, each with its identifier and its bytes.
BecomesPhoto(dir) ==
    {n \in DOMAIN dir.files :
        /\ photo_file_id(n).k = "Some"
        /\ dir.files[n].kind \in {"file", "symlink"}}

C12_EntryFilter ==
    \A n \in DOMAIN calls :
        LET c == calls[n]
            dir == c.before[c.path]
        IN  IsLoad(c) /\ c.res = "ok" =>
                /\ Len(c.scanned) = Cardinality(BecomesPhoto(dir))
                /\ \A name \in BecomesPhoto(dir) :
                      \E k \in DOMAIN c.scanned :
                          /\ c.scanned[k].id = photo_file_id(name).v
                          /\ c.scanned[k].bytes = dir.files[name].bytes

\* C13: save changes info.json only when every photo of the set has its
\* file; when the write of a photo file fails it returns CannotWriteFile for
\* that file and info.json is as it was.
C13_SaveTwoSteps ==
    \A n \in DOMAIN calls :
        LET c == calls[n]
            before == c.before[c.path]
            after == c.after[c.path]
        IN  IsSave(c) =>
                /\ after.info # before.info =>
                      PhotoNames(c.set) \subseteq DOMAIN after.files
                /\ c.res = "err" /\ c.err.file # INFO_FILE_NAME =>
                      /\ c.err.kind = "CannotWriteFile"
                      /\ c.err.file \in PhotoNames(c.set)
                      /\ c.err.file \notin DOMAIN after.files
                      /\ after.info = before.info

\* the write of a photo file failed in a folder that has an info.json
C13_Witness ==
    \E n \in DOMAIN calls :
        /\ IsSave(calls[n])
        /\ calls[n].res = "err"
        /\ calls[n].err.file \in PhotoNames(calls[n].set)
        /\ calls[n].before[calls[n].path].info.exists

\* C14: when a set that a load of folder D can return is saved to D, every
\* successful load of D afterwards returns as many photos of each identifier
\* as the set has.
IdCount(photos, id) == Cardinality({i \in DOMAIN photos : photos[i].id = id})
SameIds(p, q) ==
    /\ Len(p) = Len(q)
    /\ \A id \in PhotoIds(p) \cup PhotoIds(q) : IdCount(p, id) = IdCount(q, id)

\* some load of the folder returns a set with the identifiers of photos
LoadGives(fsys, path, photos) ==
    \E order \in Orders(DOMAIN fsys[path].files) :
        \E r \in {from_path(fsys, path, order, NoFault)} :
            r.res = "ok" /\ SameIds(r.set.photos, photos)

C14_SaveKeepsPhotoIds ==
    \A n \in DOMAIN calls :
        LET c == calls[n]
        IN  IsSave(c) /\ c.res = "ok" /\ LoadGives(c.before, c.path, c.set.photos) =>
                \A order \in Orders(DOMAIN c.after[c.path].files) :
                    \A r \in {from_path(c.after, c.path, order, NoFault)} :
                        r.res = "ok" => SameIds(r.set.photos, c.set.photos)

\* C15: while a set is shown it has a photo and current_photo_index is the
\* index of one of its photos; the set of a successful load has a photo.
C15_ShowIndexInBounds ==
    /\ status.ui.kind = "Show" =>
          /\ Len(status.ui.photos.photos) > 0
          /\ status.ui.current_photo_index \in 0..(Len(status.ui.photos.photos) - 1)
    /\ \A n \in DOMAIN calls :
          IsLoad(calls[n]) /\ calls[n].res = "ok" => Len(calls[n].set.photos) > 0

\* the last of two photos is selected and the set has been saved
C15_Witness ==
    /\ status.ui.kind = "Show"
    /\ Len(status.ui.photos.photos) = 2
    /\ status.ui.current_photo_index = 1
    /\ calls # <<>>
    /\ IsSave(calls[1])

=============================================================================
